---- MODULE Spec2Model ----
(***************************************************************************)
(* Model of the Manila CSI driver operator controller                      *)
(* (pkg/controllers/manila/manila.go): the sync function, the two         *)
(* condition transitions, the storage class reconciliation and the        *)
(* controller launch latch, together with the three stores the controller *)
(* talks to (operator status, storage class API, storage class lister).   *)
(***************************************************************************)
EXTENDS Integers, Sequences, FiniteSets, TLC

VARIABLES
    conditions,          \* OperatorStatus.Conditions held by the operator status store
    controllersRunning,  \* Controller.controllersRunning
    runCount,            \* per csiController: number of Run invocations so far
    store,               \* storage classes in the API server, by name
    lister,              \* storage classes in the informer cache, by name
    probe,               \* what the most recent sync read: operator state and probe outcome
    ret,                 \* error value returned by the most recent sync
    trace,               \* external calls issued by the most recent sync, in order
    userAnnotated        \* history kept under FairSpec: classes a user has annotated

vars == <<conditions, controllersRunning, runCount, store, lister, probe, ret, trace,
          userAnnotated>>

(***************************************************************************)
(* Bounds of the model.                                                    *)
(***************************************************************************)
\* number of entries of csiControllers
NumControllers == 2
\* the Run counter saturates here
MaxRuns == 3

(***************************************************************************)
(* Constants of the program.                                               *)
(***************************************************************************)
operatorConditionPrefix == "ManilaController"
OperatorStatusTypeAvailable == "Available"
StorageClassNamePrefix == "manila-"
ManilaSecretName == "csi-manila-secrets"
OperatorNamespace == "openshift-manila-csi-driver"
\* secret namespace of classes left behind by an OLM installation
OlmNamespace == "manila-csi-olm"
DefaultClassAnnotation == <<"storageclass.kubernetes.io/is-default-class", "true">>

AvailableType == operatorConditionPrefix \o OperatorStatusTypeAvailable
DisabledType == operatorConditionPrefix \o "Disabled"

\* the share types Manila can report (sharetypes.ShareType, by Name)
ShareTypes == {[Name |-> "default"], [Name |-> "fast"]}
csiControllers == 1..NumControllers

Min(a, b) == IF a < b THEN a ELSE b
\* the element of a set holding exactly one element
The(S) == CHOOSE x \in S : TRUE

\* the order in which Manila lists its share types
ListingOrder == <<[Name |-> "default"], [Name |-> "fast"]>>

RECURSIVE Listing(_, _)
\* the share types of S from position i on, in listing order
Listing(S, i) ==
    IF i > Len(ListingOrder) THEN <<>>
    ELSE (IF ListingOrder[i] \in S THEN <<ListingOrder[i]>> ELSE <<>>) \o Listing(S, i + 1)

\* share type lists GetShareTypes can return: any of the share types, each
\* at most once
ShareTypeLists == {Listing(S, 1) : S \in SUBSET ShareTypes}

(***************************************************************************)
(* generateStorageClass                                                    *)
(***************************************************************************)
\* a class without the namespace of the node publish secret
generateStorageClass_FiveSecrets(shareType) ==
    [ObjectMeta  |-> [Name |-> StorageClassNamePrefix \o shareType.Name,
                      Annotations |-> {}],
     Provisioner |-> "manila.csi.openstack.org",
     Parameters  |->
        ("type" :> shareType.Name)
        @@ ("csi.storage.k8s.io/provisioner-secret-name" :> ManilaSecretName)
        @@ ("csi.storage.k8s.io/provisioner-secret-namespace" :> OperatorNamespace)
        @@ ("csi.storage.k8s.io/node-stage-secret-name" :> ManilaSecretName)
        @@ ("csi.storage.k8s.io/node-stage-secret-namespace" :> OperatorNamespace)
        @@ ("csi.storage.k8s.io/node-publish-secret-name" :> ManilaSecretName)]

generateStorageClass(shareType) ==
    [ObjectMeta  |-> [Name |-> StorageClassNamePrefix \o shareType.Name,
                      Annotations |-> {}],
     Provisioner |-> "manila.csi.openstack.org",
     Parameters  |->
        ("type" :> shareType.Name)
        @@ ("csi.storage.k8s.io/provisioner-secret-name" :> ManilaSecretName)
        @@ ("csi.storage.k8s.io/provisioner-secret-namespace" :> OperatorNamespace)
        @@ ("csi.storage.k8s.io/node-stage-secret-name" :> ManilaSecretName)
        @@ ("csi.storage.k8s.io/node-stage-secret-namespace" :> OperatorNamespace)
        @@ ("csi.storage.k8s.io/node-publish-secret-name" :> ManilaSecretName)
        @@ ("csi.storage.k8s.io/node-publish-secret-namespace" :> OperatorNamespace)]

\* generateStorageClass of every share type, computed once
Expected == [t \in ShareTypes |-> generateStorageClass(t)]

ClassNames == {Expected[t].ObjectMeta.Name : t \in ShareTypes}

\* the class an OLM-installed operator created for the share type: same name,
\* secrets in another namespace
OlmStorageClass(shareType) ==
    LET sc == Expected[shareType]
    IN [sc EXCEPT !.Parameters =
            [k \in DOMAIN sc.Parameters |->
                IF sc.Parameters[k] = OperatorNamespace THEN OlmNamespace
                ELSE sc.Parameters[k]]]

\* OlmStorageClass of every share type, computed once
Olm == [t \in ShareTypes |-> OlmStorageClass(t)]

(***************************************************************************)
(* Error values.  An error carries the reason the API gave and the name   *)
(* of the object it is about; the aggregate carries its members in order. *)
(***************************************************************************)
NoErr == [Reason |-> "nil", Name |-> ""]
ApiErr(reason, name) == [Reason |-> reason, Name |-> name]

Nil == [Kind |-> "nil", Errs |-> <<>>]
Err(kind) == [Kind |-> kind, Errs |-> <<>>]
\* errors.NewAggregate
NewAggregate(errs) == [Kind |-> "Aggregate", Errs |-> errs]

\* one external call in the trace of a sync: the operation, the object name
\* it addresses, the object it submits (if any) and the error it returned
Call(op, name, obj, err) == [op |-> op, name |-> name, obj |-> obj, err |-> err]

(***************************************************************************)
(* Operator conditions.  conditions is the set of condition records; the  *)
(* helpers keep at most one record per Type.                               *)
(***************************************************************************)
\* v1helpers.SetOperatorCondition as used by UpdateConditionFn
UpdateConditionFn(conds, cnd) == {c \in conds : c.Type # cnd.Type} \cup {cnd}

removeConditionFn(conds, cnd) == {c \in conds : c.Type # cnd}

\* v1helpers.UpdateStatus: one read-modify-write of the status; on failure
\* nothing is written
UpdateStatus(conds, updated, fail) ==
    IF fail THEN [conditions |-> conds, err |-> Err("UpdateStatus")]
    ELSE [conditions |-> updated, err |-> Nil]

\* setEnabled that leaves the Disabled condition in place
setEnabled_KeepsDisabled(conds, fail) ==
    UpdateStatus(conds,
                 UpdateConditionFn(conds, [Type |-> AvailableType, Status |-> "True",
                                           Reason |-> "", Message |-> ""]),
                 fail)

\* setEnabled that only removes the Disabled condition
setEnabled_NoAvailable(conds, fail) ==
    UpdateStatus(conds, removeConditionFn(conds, DisabledType), fail)

setEnabled(conds, fail) ==
    LET availableCnd == [Type |-> AvailableType, Status |-> "True",
                         Reason |-> "", Message |-> ""]
    IN UpdateStatus(conds,
                    removeConditionFn(UpdateConditionFn(conds, availableCnd), DisabledType),
                    fail)

\* setDisabled that reports another reason
setDisabled_OtherReason(conds, msg, fail) ==
    UpdateStatus(conds,
                 removeConditionFn(
                     UpdateConditionFn(conds, [Type |-> DisabledType, Status |-> "True",
                                               Reason |-> "AsExpected", Message |-> msg]),
                     AvailableType),
                 fail)

setDisabled(conds, msg, fail) ==
    LET disabledCnd == [Type |-> DisabledType, Status |-> "True",
                        Reason |-> "NoManila", Message |-> msg]
    IN UpdateStatus(conds,
                    removeConditionFn(UpdateConditionFn(conds, disabledCnd), AvailableType),
                    fail)

(***************************************************************************)
(* Storage classes.  store and lister map each class name to the set      *)
(* holding the object of that name, or to {} when there is none.          *)
(***************************************************************************)
\* what can go wrong while one share type is reconciled
Faults == {"none", "delete", "write", "race"}

\* resourcemerge.MergeMap on annotations: entries of required win
MergeMap(existing, required) ==
    {e \in existing : \A r \in required : r[1] # e[1]} \cup required

\* resourcemerge.EnsureObjectMeta: existing metadata with the name and the
\* annotations that required sets
EnsureObjectMeta(existing, required) ==
    [Name |-> IF required.Name # "" THEN required.Name ELSE existing.Name,
     Annotations |-> MergeMap(existing.Annotations, required.Annotations)]

\* the outcome of one call or of several in a row: the store after it, the
\* calls issued and the error returned
Outcome(st, calls, err) == [store |-> st, trace |-> calls, err |-> err]

\* first, then second
AndThen(first, second) ==
    Outcome(second.store, first.trace \o second.trace, second.err)

\* StorageClasses().Get
Get(st, name) ==
    Outcome(st,
            <<Call("Get", name, {}, IF st[name] = {} THEN ApiErr("NotFound", name) ELSE NoErr)>>,
            IF st[name] = {} THEN ApiErr("NotFound", name) ELSE NoErr)

\* StorageClasses().Create of a class the caller has just read as absent.
\* Under fault "race" another operator instance creates the class first and
\* the API answers AlreadyExists.
Create(st, obj, fault) ==
    IF fault = "race"
    THEN Outcome([st EXCEPT ![obj.ObjectMeta.Name] =
                     {[obj EXCEPT !.ObjectMeta.Annotations = {}]}],
                 <<Call("Create", obj.ObjectMeta.Name, {obj},
                        ApiErr("AlreadyExists", obj.ObjectMeta.Name))>>,
                 ApiErr("AlreadyExists", obj.ObjectMeta.Name))
    ELSE IF fault = "write"
    THEN Outcome(st,
                 <<Call("Create", obj.ObjectMeta.Name, {obj},
                        ApiErr("InternalError", obj.ObjectMeta.Name))>>,
                 ApiErr("InternalError", obj.ObjectMeta.Name))
    ELSE Outcome([st EXCEPT ![obj.ObjectMeta.Name] = {obj}],
                 <<Call("Create", obj.ObjectMeta.Name, {obj}, NoErr)>>,
                 NoErr)

\* StorageClasses().Update of an existing class.  The API refuses an update
\* that changes Parameters or Provisioner.
Update(st, obj, fault) ==
    IF fault = "write"
    THEN Outcome(st,
                 <<Call("Update", obj.ObjectMeta.Name, {obj},
                        ApiErr("InternalError", obj.ObjectMeta.Name))>>,
                 ApiErr("InternalError", obj.ObjectMeta.Name))
    ELSE IF \/ obj.Parameters # The(st[obj.ObjectMeta.Name]).Parameters
            \/ obj.Provisioner # The(st[obj.ObjectMeta.Name]).Provisioner
    THEN Outcome(st,
                 <<Call("Update", obj.ObjectMeta.Name, {obj},
                        ApiErr("Invalid", obj.ObjectMeta.Name))>>,
                 ApiErr("Invalid", obj.ObjectMeta.Name))
    ELSE Outcome([st EXCEPT ![obj.ObjectMeta.Name] = {obj}],
                 <<Call("Update", obj.ObjectMeta.Name, {obj}, NoErr)>>,
                 NoErr)

\* StorageClasses().Delete
Delete(st, name, fault) ==
    IF fault = "delete"
    THEN Outcome(st, <<Call("Delete", name, {}, ApiErr("InternalError", name))>>,
                 ApiErr("InternalError", name))
    ELSE IF st[name] = {}
    THEN Outcome(st, <<Call("Delete", name, {}, ApiErr("NotFound", name))>>,
                 ApiErr("NotFound", name))
    ELSE Outcome([st EXCEPT ![name] = {}], <<Call("Delete", name, {}, NoErr)>>, NoErr)

\* resourceapply.ApplyStorageClass: read the class from the API; create it
\* when it is not found, otherwise update it, keeping the metadata it has.
\* Objects read from the API carry server-set metadata that required never
\* has, so the update is always sent.
ApplyStorageClass(st, required, fault) ==
    IF st[required.ObjectMeta.Name] = {}
    THEN AndThen(Get(st, required.ObjectMeta.Name), Create(st, required, fault))
    ELSE AndThen(Get(st, required.ObjectMeta.Name),
                 Update(st,
                        [required EXCEPT !.ObjectMeta =
                            EnsureObjectMeta(The(st[required.ObjectMeta.Name]).ObjectMeta,
                                             required.ObjectMeta)],
                        fault))

\* a replacement that creates the class with the metadata of expected alone
applyStorageClass_NoMerge(st, ls, expected, fault) ==
    IF /\ ls[expected.ObjectMeta.Name] # {}
       /\ expected.Parameters # The(ls[expected.ObjectMeta.Name]).Parameters
    THEN LET Deleted(d) ==
                 IF d.err # NoErr
                 THEN Outcome(d.store, d.trace,
                              IF d.err.Reason = "NotFound" THEN NoErr ELSE d.err)
                 ELSE AndThen(d, ApplyStorageClass(d.store, expected, fault))
         IN Deleted(Delete(st, expected.ObjectMeta.Name, fault))
    ELSE ApplyStorageClass(st, expected, fault)

applyStorageClass(st, ls, expected, fault) ==
    IF /\ ls[expected.ObjectMeta.Name] # {}
       /\ expected.Parameters # The(ls[expected.ObjectMeta.Name]).Parameters
    THEN LET Deleted(d) ==
                 IF d.err # NoErr
                 THEN Outcome(d.store, d.trace,
                              IF d.err.Reason = "NotFound" THEN NoErr ELSE d.err)
                 ELSE AndThen(d,
                        ApplyStorageClass(d.store,
                            [expected EXCEPT !.ObjectMeta =
                                EnsureObjectMeta(The(ls[expected.ObjectMeta.Name]).ObjectMeta,
                                                 expected.ObjectMeta)],
                            fault))
         IN Deleted(Delete(st, expected.ObjectMeta.Name, fault))
    ELSE ApplyStorageClass(st, expected, fault)

RECURSIVE syncStorageClassesFrom_StopsAtError(_, _, _, _, _)
\* a loop that returns at the first error
syncStorageClassesFrom_StopsAtError(st, ls, shareTypes, faults, i) ==
    IF i > Len(shareTypes) THEN [store |-> st, trace |-> <<>>, errs |-> <<>>]
    ELSE LET Then(a) ==
                 IF a.err # NoErr
                 THEN [store |-> a.store, trace |-> a.trace, errs |-> <<a.err>>]
                 ELSE LET After(rest) ==
                              [store |-> rest.store,
                               trace |-> a.trace \o rest.trace,
                               errs |-> rest.errs]
                      IN After(syncStorageClassesFrom_StopsAtError(
                                   a.store, ls, shareTypes, faults, i + 1))
         IN Then(applyStorageClass(st, ls, Expected[shareTypes[i]], faults[i]))

RECURSIVE syncStorageClassesFrom(_, _, _, _, _)
\* the loop of syncStorageClasses from item i on: the store after it, the
\* calls it issued and the errors it collected
syncStorageClassesFrom(st, ls, shareTypes, faults, i) ==
    IF i > Len(shareTypes) THEN [store |-> st, trace |-> <<>>, errs |-> <<>>]
    ELSE LET Then(a) ==
                 LET After(rest) ==
                         [store |-> rest.store,
                          trace |-> a.trace \o rest.trace,
                          errs |-> (IF a.err # NoErr THEN <<a.err>> ELSE <<>>) \o rest.errs]
                 IN After(syncStorageClassesFrom(a.store, ls, shareTypes, faults, i + 1))
         IN Then(applyStorageClass(st, ls, Expected[shareTypes[i]], faults[i]))

RECURSIVE DeleteAll(_, _)
\* the deletion of every class of a set of names
DeleteAll(st, names) ==
    IF names = {} THEN Outcome(st, <<>>, NoErr)
    ELSE LET n == CHOOSE m \in names : TRUE
         IN AndThen(Delete(st, n, "none"), DeleteAll([st EXCEPT ![n] = {}], names \ {n}))

\* a reconciliation that also removes the classes of share types that are
\* no longer listed
syncStorageClasses_Prunes(st, ls, shareTypes, faults) ==
    LET Pruned(r) ==
            LET gone == {n \in ClassNames :
                            /\ r.store[n] # {}
                            /\ \A i \in 1..Len(shareTypes) :
                                  Expected[shareTypes[i]].ObjectMeta.Name # n}
                After(d) ==
                    [store |-> d.store, trace |-> r.trace \o d.trace,
                     err |-> IF Len(r.errs) # 0 THEN NewAggregate(r.errs) ELSE Nil]
            IN After(DeleteAll(r.store, gone))
    IN Pruned(syncStorageClassesFrom(st, ls, shareTypes, faults, 1))

syncStorageClasses(st, ls, shareTypes, faults) ==
    LET r == syncStorageClassesFrom(st, ls, shareTypes, faults, 1)
    IN [store |-> r.store, trace |-> r.trace,
        err |-> IF Len(r.errs) # 0 THEN NewAggregate(r.errs) ELSE Nil]

(***************************************************************************)
(* sync                                                                    *)
(***************************************************************************)
\* a launch that does not consult the latch
startControllers_NoLatch(running, counts) ==
    [controllersRunning |-> TRUE,
     runCount |-> [c \in csiControllers |-> Min(counts[c] + 1, MaxRuns)],
     trace |-> [c \in 1..NumControllers |-> Call("Run", ToString(c), {}, NoErr)]]

\* the launch of the CSI driver controllers, behind the controllersRunning latch
startControllers(running, counts) ==
    IF ~running
    THEN [controllersRunning |-> TRUE,
          runCount |-> [c \in csiControllers |-> Min(counts[c] + 1, MaxRuns)],
          trace |-> [c \in 1..NumControllers |-> Call("Run", ToString(c), {}, NoErr)]]
    ELSE [controllersRunning |-> running, runCount |-> counts, trace |-> <<>>]

\* the trace entry of a call to the operator client or to OpenStack
Plain(op, failed) ==
    Call(op, "", {}, IF failed THEN ApiErr("InternalError", "") ELSE NoErr)

\* One run of sync.  c is the state it starts from (conditions,
\* controllersRunning, runCount, store, lister); in holds what the outside
\* answers during the run: the operator state, the outcome of GetShareTypes,
\* the share types, the fault met at each share type and whether the status
\* update fails.  The result is the state the run leaves, the error it
\* returns and the external calls it has issued, in order.

\* what a run that returns early leaves as it found it
Same(c) ==
    [conditions |-> c.conditions,
     controllersRunning |-> c.controllersRunning,
     runCount |-> c.runCount,
     store |-> c.store]

\* the calls every run that reaches the probe starts with
Probed(in) == <<Plain("GetOperatorState", FALSE), Plain("GetShareTypes", in.outcome # "ok")>>

\* a run that probes Manila although the operator is not managed
syncUnmanaged_Probes(c, in) ==
    Same(c) @@ [ret |-> Nil, trace |-> Probed(in)]

\* the management state is not Managed: return nil
syncUnmanaged(c, in) ==
    Same(c) @@ [ret |-> Nil, trace |-> <<Plain("GetOperatorState", FALSE)>>]

\* a run that reports the operator as disabled on every error of the probe
syncProbeError_Disables(c, in) ==
    LET d == setDisabled(c.conditions, "This OpenStack does not provide Manila service",
                         in.statusFail)
    IN [Same(c) EXCEPT !.conditions = d.conditions]
       @@ [ret |-> d.err,
           trace |-> Probed(in) \o <<Plain("UpdateStatus", in.statusFail)>>]

\* GetShareTypes failed with an error other than ErrEndpointNotFound: return it
syncProbeError(c, in) ==
    Same(c) @@ [ret |-> Err("GetShareTypes"), trace |-> Probed(in)]

\* a run that starts the controllers when the list is empty
syncDisable_EmptyStarts(c, in, msg) ==
    LET d == setDisabled(c.conditions, msg, in.statusFail)
        l == IF in.outcome = "ok"
             THEN startControllers(c.controllersRunning, c.runCount)
             ELSE [controllersRunning |-> c.controllersRunning,
                   runCount |-> c.runCount, trace |-> <<>>]
    IN [conditions |-> d.conditions,
        controllersRunning |-> l.controllersRunning,
        runCount |-> l.runCount,
        store |-> c.store,
        ret |-> d.err,
        trace |-> Probed(in) \o l.trace \o <<Plain("UpdateStatus", in.statusFail)>>]

\* Manila is not there, or has no share types: return c.setDisabled(msg)
syncDisable(c, in, msg) ==
    LET d == setDisabled(c.conditions, msg, in.statusFail)
    IN [Same(c) EXCEPT !.conditions = d.conditions]
       @@ [ret |-> d.err,
           trace |-> Probed(in) \o <<Plain("UpdateStatus", in.statusFail)>>]

\* a run that starts the controllers only after the classes are reconciled
\* without error
syncShareTypes_LaunchesLast(c, in) ==
    LET Finish(l, s) ==
            LET e == setEnabled(c.conditions, in.statusFail)
            IN IF s.err # Nil
               THEN [conditions |-> c.conditions,
                     controllersRunning |-> c.controllersRunning,
                     runCount |-> c.runCount,
                     store |-> s.store,
                     ret |-> s.err,
                     trace |-> Probed(in) \o s.trace]
               ELSE [conditions |-> e.conditions,
                     controllersRunning |-> l.controllersRunning,
                     runCount |-> l.runCount,
                     store |-> s.store,
                     ret |-> e.err,
                     trace |-> Probed(in) \o s.trace \o l.trace
                               \o <<Plain("UpdateStatus", in.statusFail)>>]
    IN Finish(startControllers(c.controllersRunning, c.runCount),
              syncStorageClasses(c.store, c.lister, in.shareTypes, in.faults))

\* a run that reports the operator as enabled only when it is the run that
\* has started the controllers
syncShareTypes_EnablesOnLaunch(c, in) ==
    LET Finish(l, s) ==
            LET before == Probed(in) \o l.trace \o s.trace
                e == setEnabled(c.conditions, in.statusFail)
            IN IF s.err # Nil \/ c.controllersRunning
               THEN [conditions |-> c.conditions,
                     controllersRunning |-> l.controllersRunning,
                     runCount |-> l.runCount,
                     store |-> s.store,
                     ret |-> s.err,
                     trace |-> before]
               ELSE [conditions |-> e.conditions,
                     controllersRunning |-> l.controllersRunning,
                     runCount |-> l.runCount,
                     store |-> s.store,
                     ret |-> e.err,
                     trace |-> before \o <<Plain("UpdateStatus", in.statusFail)>>]
    IN Finish(startControllers(c.controllersRunning, c.runCount),
              syncStorageClasses(c.store, c.lister, in.shareTypes, in.faults))

\* Manila has share types: start the controllers, reconcile the classes and,
\* when that returned no error, return c.setEnabled()
syncShareTypes(c, in) ==
    LET Finish(l, s) ==
            LET before == Probed(in) \o l.trace \o s.trace
                e == setEnabled(c.conditions, in.statusFail)
            IN IF s.err # Nil
               THEN [conditions |-> c.conditions,
                     controllersRunning |-> l.controllersRunning,
                     runCount |-> l.runCount,
                     store |-> s.store,
                     ret |-> s.err,
                     trace |-> before]
               ELSE [conditions |-> e.conditions,
                     controllersRunning |-> l.controllersRunning,
                     runCount |-> l.runCount,
                     store |-> s.store,
                     ret |-> e.err,
                     trace |-> before \o <<Plain("UpdateStatus", in.statusFail)>>]
    IN Finish(startControllers(c.controllersRunning, c.runCount),
              syncStorageClasses(c.store, c.lister, in.shareTypes, in.faults))

sync(c, in) ==
    IF in.opState = "error"
    THEN Same(c) @@ [ret |-> Err("GetOperatorState"),
                     trace |-> <<Plain("GetOperatorState", TRUE)>>]
    ELSE IF in.opState # "Managed"
    THEN syncUnmanaged(c, in)
    ELSE IF in.outcome = "ErrEndpointNotFound"
    THEN syncDisable(c, in, "This OpenStack does not provide Manila service")
    ELSE IF in.outcome # "ok"
    THEN syncProbeError(c, in)
    ELSE IF Len(in.shareTypes) = 0
    THEN syncDisable(c, in, "Manila does not provide any share types")
    ELSE syncShareTypes(c, in)

(***************************************************************************)
(* The state machine.                                                      *)
(***************************************************************************)
NoProbe == [opState |-> "none", status |-> {}, outcome |-> "none", shareTypes |-> <<>>]

\* what the outside can answer during one sync
Inputs ==
    {[opState |-> s, outcome |-> "none", shareTypes |-> <<>>, faults |-> <<>>,
      statusFail |-> FALSE] : s \in {"error", "Unmanaged", "Removed"}}
    \cup {[opState |-> "Managed", outcome |-> "ErrEndpointNotFound", shareTypes |-> <<>>,
           faults |-> <<>>, statusFail |-> f] : f \in BOOLEAN}
    \cup {[opState |-> "Managed", outcome |-> "error", shareTypes |-> <<>>,
           faults |-> <<>>, statusFail |-> FALSE]}
    \cup UNION {{[opState |-> "Managed", outcome |-> "ok", shareTypes |-> l,
                  faults |-> fs, statusFail |-> f] :
                    fs \in [1..Len(l) -> Faults], f \in BOOLEAN} : l \in ShareTypeLists}

Current ==
    [conditions |-> conditions, controllersRunning |-> controllersRunning,
     runCount |-> runCount, store |-> store, lister |-> lister]

\* the value of userAnnotated when no history is kept
Untracked == {"untracked"}

Init ==
    /\ conditions = {}
    /\ controllersRunning = FALSE
    /\ runCount = [c \in csiControllers |-> 0]
    /\ store = [n \in ClassNames |-> {}]
    /\ lister = [n \in ClassNames |-> {}]
    /\ probe = NoProbe
    /\ ret = Nil
    /\ trace = <<>>
    /\ userAnnotated = Untracked

\* whether the calls issued for class n in the current state include the one
\* that fault f hits
CanMeet(n, f) ==
    LET replace == lister[n] # {}
                   /\ \E t \in ShareTypes :
                         /\ Expected[t].ObjectMeta.Name = n
                         /\ Expected[t].Parameters # The(lister[n]).Parameters
        applies == ~replace \/ store[n] # {}
    IN \/ f = "none"
       \/ f = "delete" /\ replace
       \/ f = "write" /\ applies
       \/ f = "race" /\ applies /\ (replace \/ store[n] = {})

\* When history is kept, userAnnotated holds the names of the classes on
\* which a user has set the default class annotation, for as long as nobody
\* but sync writes the class and every list a probe returns holds its share
\* type.
Tracked(names) == IF userAnnotated = Untracked THEN Untracked ELSE names

\* A sync keeps a name unless its probe returned a list without the share
\* type or another operator instance created the class during the run.
StillAnnotated(in, calls) ==
    IF userAnnotated # Untracked /\ in.opState = "Managed" /\ in.outcome = "ok"
    THEN {n \in userAnnotated :
            /\ \E i \in 1..Len(in.shareTypes) : Expected[in.shareTypes[i]].ObjectMeta.Name = n
            /\ \A i \in 1..Len(calls) :
                  ~(calls[i].name = n /\ calls[i].err.Reason = "AlreadyExists")}
    ELSE userAnnotated

\* one run of sync in which the outside answers with in; the faults of in
\* hit calls that this run issues
SyncWith(in) ==
    /\ \A i \in 1..Len(in.shareTypes) :
          CanMeet(Expected[in.shareTypes[i]].ObjectMeta.Name, in.faults[i])
    /\ \E r \in {sync(Current, in)} :
          /\ in.statusFail => r.ret = Err("UpdateStatus")
          /\ conditions' = r.conditions
          /\ controllersRunning' = r.controllersRunning
          /\ runCount' = r.runCount
          /\ store' = r.store
          /\ lister' = lister
          /\ probe' = [opState |-> in.opState, status |-> conditions,
                       outcome |-> in.outcome, shareTypes |-> in.shareTypes]
          /\ ret' = r.ret
          /\ trace' = r.trace
          /\ userAnnotated' = StillAnnotated(in, r.trace)

\* the factory runs sync, one run at a time; the outside answers with any
\* input
Sync == \E in \in Inputs : SyncWith(in)

\* between syncs nothing of a past sync is left to observe
Idle == probe' = NoProbe /\ ret' = Nil /\ trace' = <<>>

\* an informer that delivers nothing
InformerDeliver_Never ==
    \E n \in ClassNames :
        /\ lister[n] # store[n]
        /\ lister' = lister
        /\ Idle
        /\ UNCHANGED <<conditions, controllersRunning, runCount, store, userAnnotated>>

\* the informer brings the cache entry of one class up to date
InformerDeliver ==
    \E n \in ClassNames :
        /\ lister[n] # store[n]
        /\ lister' = [lister EXCEPT ![n] = store[n]]
        /\ Idle
        /\ UNCHANGED <<conditions, controllersRunning, runCount, store, userAnnotated>>

\* an OLM-installed operator (or an administrator) creates a class with the
\* old secret namespace
OutsideCreate ==
    \E t \in ShareTypes :
        LET n == Expected[t].ObjectMeta.Name
        IN /\ store[n] = {}
           /\ store' = [store EXCEPT ![n] = {Olm[t]}]
           /\ userAnnotated' = Tracked(userAnnotated \ {n})
           /\ Idle
           /\ UNCHANGED <<conditions, controllersRunning, runCount, lister>>

\* an administrator marks a class as the default class when no class is
OutsideAnnotate ==
    \E n \in ClassNames :
        /\ store[n] # {}
        /\ \A m \in ClassNames :
              store[m] # {} => DefaultClassAnnotation \notin The(store[m]).ObjectMeta.Annotations
        /\ store' = [store EXCEPT ![n] =
               {[The(store[n]) EXCEPT !.ObjectMeta.Annotations = @ \cup {DefaultClassAnnotation}]}]
        /\ userAnnotated' = Tracked(userAnnotated \cup {n})
        /\ Idle
        /\ UNCHANGED <<conditions, controllersRunning, runCount, lister>>

\* somebody deletes a class
OutsideDelete ==
    \E n \in ClassNames :
        /\ store[n] # {}
        /\ store' = [store EXCEPT ![n] = {}]
        /\ userAnnotated' = Tracked(userAnnotated \ {n})
        /\ Idle
        /\ UNCHANGED <<conditions, controllersRunning, runCount, lister>>

Next ==
    \/ Sync
    \/ InformerDeliver
    \/ OutsideCreate
    \/ OutsideAnnotate
    \/ OutsideDelete

Spec == Init /\ [][Next]_vars

(***************************************************************************)
(* The controller under fair scheduling.  Manila keeps listing all its    *)
(* share types; syncs may still meet faults and users may still write     *)
(* classes.  The factory resyncs every resyncInterval, so a sync that     *)
(* meets no fault and would change something eventually runs; the         *)
(* informer eventually delivers every change of the store to the lister.  *)
(***************************************************************************)
FullList == Listing(ShareTypes, 1)

\* the answers of a sync that meets no fault
Calm ==
    [opState |-> "Managed", outcome |-> "ok", shareTypes |-> FullList,
     faults |-> [i \in 1..Len(FullList) |-> "none"], statusFail |-> FALSE]

\* a sync that meets no fault
Resync == SyncWith(Calm)

\* a sync in which a call fails
Troubled ==
    \E in \in Inputs :
        /\ in.opState = "Managed"
        /\ in.outcome = "ok"
        /\ in.shareTypes = FullList
        /\ in # Calm
        /\ SyncWith(in)

\* Resync would change the state: ENABLED <<Resync>>_vars, computed from
\* what sync returns
ResyncPending ==
    \E r \in {sync(Current, Calm)} :
        <<r.conditions, r.controllersRunning, r.runCount, r.store, r.ret, r.trace,
          [opState |-> Calm.opState, status |-> conditions,
           outcome |-> Calm.outcome, shareTypes |-> Calm.shareTypes],
          StillAnnotated(Calm, r.trace)>>
        # <<conditions, controllersRunning, runCount, store, ret, trace, probe, userAnnotated>>

FairInit ==
    /\ conditions = {}
    /\ controllersRunning = FALSE
    /\ runCount = [c \in csiControllers |-> 0]
    /\ store = [n \in ClassNames |-> {}]
    /\ lister = [n \in ClassNames |-> {}]
    /\ probe = NoProbe
    /\ ret = Nil
    /\ trace = <<>>
    /\ userAnnotated = {}

FairNext ==
    \/ Resync
    \/ Troubled
    \/ InformerDeliver
    \/ OutsideCreate
    \/ OutsideAnnotate
    \/ OutsideDelete

\* the second conjunct is weak fairness of Resync, WF_vars(Resync), with
\* its enabling condition written as the state predicate ResyncPending
FairSpec ==
    /\ FairInit /\ [][FairNext]_vars
    /\ ([]<>~ResyncPending \/ []<><<Resync>>_vars)
    /\ WF_vars(InformerDeliver)

(***************************************************************************)
(* Vocabulary of the properties.                                           *)
(***************************************************************************)
Available == [Type |-> AvailableType, Status |-> "True", Reason |-> "", Message |-> ""]
DisabledWith(msg) ==
    [Type |-> DisabledType, Status |-> "True", Reason |-> "NoManila", Message |-> msg]
NoService == "This OpenStack does not provide Manila service"
NoShareTypes == "Manila does not provide any share types"

HasTrue(conds, type) == \E c \in conds : c.Type = type /\ c.Status = "True"
Has(conds, type) == \E c \in conds : c.Type = type

\* the step is a run of sync
SyncStep == probe' # NoProbe
\* the state is the one a run of sync has just left
AfterSync == probe # NoProbe

\* the calls of the trace that satisfy Test, in order
Calls(tr, Test(_)) == SelectSeq(tr, Test)
IsStatusUpdate(c) == c.op = "UpdateStatus"
IsRun(c) == c.op = "Run"
IsClassCall(c) == c.op \in {"Get", "Create", "Update", "Delete"}
IsClassWrite(c) == c.op \in {"Create", "Update", "Delete"}
\* the status update of the run was issued and succeeded
StatusUpdated(tr) == \E i \in 1..Len(tr) : tr[i].op = "UpdateStatus" /\ tr[i].err = NoErr

(***************************************************************************)
(* C1.  The status store never holds ManilaControllerAvailable=true and   *)
(* ManilaControllerDisabled=true together, and every change of the        *)
(* conditions is a whole transition: it leaves exactly the Available      *)
(* condition, or exactly the Disabled condition, never one half of a      *)
(* transition.                                                             *)
(***************************************************************************)
C1_MutuallyExclusive ==
    /\ [](~(HasTrue(conditions, AvailableType) /\ HasTrue(conditions, DisabledType)))
    /\ [][conditions' # conditions =>
            \/ conditions' = {Available}
            \/ conditions' \in {{DisabledWith(NoService)}, {DisabledWith(NoShareTypes)}}]_vars

\* a sync has replaced a Disabled condition by the Available condition
C1_Witness ==
    /\ AfterSync
    /\ HasTrue(probe.status, DisabledType)
    /\ conditions = {Available}

(***************************************************************************)
(* C2.  From every prior condition state, a sync in Managed state whose   *)
(* probe fails with the endpoint-not-found error and whose status update  *)
(* succeeds ends with Disabled true with reason NoManila, Available       *)
(* absent, and returns no error.                                           *)
(***************************************************************************)
C2_NotSupportedDisables ==
    (/\ AfterSync
     /\ probe.opState = "Managed"
     /\ probe.outcome = "ErrEndpointNotFound"
     /\ StatusUpdated(trace))
    => /\ \E c \in conditions :
             c.Type = DisabledType /\ c.Status = "True" /\ c.Reason = "NoManila"
       /\ ~Has(conditions, AvailableType)
       /\ ret = Nil

\* such a sync has run on a status that held Available
C2_Witness ==
    /\ probe.opState = "Managed"
    /\ probe.outcome = "ErrEndpointNotFound"
    /\ StatusUpdated(trace)
    /\ HasTrue(probe.status, AvailableType)

\* the sync that has just run was in Managed state and its probe returned a
\* share type list that is not empty
SawShareTypes ==
    /\ AfterSync
    /\ probe.opState = "Managed"
    /\ probe.outcome = "ok"
    /\ Len(probe.shareTypes) > 0

\* the class names of the share types of a list
NamesOf(list) == {Expected[list[i]].ObjectMeta.Name : i \in 1..Len(list)}

(***************************************************************************)
(* C3.  (as stated) From every prior state, a sync in Managed state whose *)
(* probe returns a non-empty list and whose reconciliations all return no *)
(* error ends with Available true and Disabled absent.                     *)
(***************************************************************************)
C3_Original ==
    (SawShareTypes /\ ret.Kind # "Aggregate")
    => HasTrue(conditions, AvailableType) /\ ~Has(conditions, DisabledType)

(***************************************************************************)
(* C3.  (amended) From every prior state, a sync in Managed state whose   *)
(* probe returns a non-empty list, whose reconciliations all return no    *)
(* error and whose status update succeeds ends with Available true and    *)
(* Disabled absent, and returns no error.                                  *)
(***************************************************************************)
C3_AllReconciledEnables ==
    (SawShareTypes /\ ret.Kind # "Aggregate" /\ StatusUpdated(trace))
    => /\ HasTrue(conditions, AvailableType)
       /\ ~Has(conditions, DisabledType)
       /\ ret = Nil

\* such a sync has reconciled two share types on a status that held Disabled
C3_Witness ==
    /\ SawShareTypes
    /\ Len(probe.shareTypes) = 2
    /\ ret = Nil
    /\ StatusUpdated(trace)
    /\ HasTrue(probe.status, DisabledType)

(***************************************************************************)
(* C4.  Every controller of csiControllers is started exactly once, by    *)
(* the first sync that sees a non-empty share type list, and never again: *)
(* controllersRunning is set by that sync, is never reset, and no other   *)
(* sync invokes Run.                                                       *)
(***************************************************************************)
C4_StartedOnce ==
    /\ [](\A c \in csiControllers : runCount[c] = IF controllersRunning THEN 1 ELSE 0)
    /\ [](SawShareTypes => controllersRunning)
    /\ [][controllersRunning => controllersRunning' /\ runCount' = runCount]_vars
    /\ [][runCount' # runCount =>
            /\ SyncStep
            /\ probe'.outcome = "ok"
            /\ Len(probe'.shareTypes) > 0
            /\ Len(Calls(trace', IsRun)) = NumControllers]_vars

\* a later sync has seen a non-empty list and has started nothing
C4_Witness ==
    /\ SawShareTypes
    /\ controllersRunning
    /\ Len(Calls(trace, IsRun)) = 0
    /\ Len(Calls(trace, IsClassCall)) > 0

(***************************************************************************)
(* C5.  A sync deletes no storage class other than those named            *)
(* prefix+name for a share type of the list its own probe returned, and   *)
(* leaves every other class as it is.  A sync whose probe reports         *)
(* not-supported, an empty list or an error issues no storage class call  *)
(* at all, changes no class and leaves controllersRunning unchanged.      *)
(***************************************************************************)
C5_NoStaleDeletion ==
    [][SyncStep =>
        /\ \A i \in 1..Len(trace') :
              trace'[i].op = "Delete" => trace'[i].name \in NamesOf(probe'.shareTypes)
        /\ \A n \in ClassNames \ NamesOf(probe'.shareTypes) : store'[n] = store[n]
        /\ (probe'.outcome # "ok" \/ Len(probe'.shareTypes) = 0) =>
              /\ Len(Calls(trace', IsClassCall)) = 0
              /\ store' = store
              /\ controllersRunning' = controllersRunning
              /\ runCount' = runCount]_vars

\* a sync has replaced the class of a listed share type and has left in
\* place the class of a share type that is no longer listed
C5_Witness ==
    /\ SawShareTypes
    /\ \E i \in 1..Len(trace) : trace[i].op = "Delete" /\ trace[i].err = NoErr
    /\ \E n \in ClassNames \ NamesOf(probe.shareTypes) : store[n] # {}

\* the calls of the trace that returned an error that fails a share type
IsFailure(c) ==
    /\ IsClassCall(c)
    /\ c.err # NoErr
    /\ ~(c.op \in {"Get", "Delete"} /\ c.err.Reason = "NotFound")

ErrorsOf(calls) == [i \in 1..Len(calls) |-> calls[i].err]

(***************************************************************************)
(* C6.  Whatever share types fail to reconcile, the sync attempts every   *)
(* share type of the list, returns one aggregate error holding the error  *)
(* of each failing share type, in order, and leaves the conditions as     *)
(* they were before the sync.                                              *)
(***************************************************************************)
C6_AllAttemptedAggregate ==
    SawShareTypes =>
        /\ \A n \in NamesOf(probe.shareTypes) :
              \E i \in 1..Len(trace) : IsClassCall(trace[i]) /\ trace[i].name = n
        /\ Len(Calls(trace, IsFailure)) > 0 =>
              /\ ret = NewAggregate(ErrorsOf(Calls(trace, IsFailure)))
              /\ conditions = probe.status
              /\ Len(Calls(trace, IsStatusUpdate)) = 0
        /\ ret.Kind = "Aggregate" => Len(Calls(trace, IsFailure)) > 0

\* the first of two share types has failed, the second has been created all
\* the same, and the Available condition of before is still there
C6_Witness ==
    /\ SawShareTypes
    /\ Len(probe.shareTypes) = 2
    /\ Len(ret.Errs) = 1
    /\ ret.Errs[1].Name = Expected[probe.shareTypes[1]].ObjectMeta.Name
    /\ \E i \in 1..Len(trace) :
          /\ trace[i].op = "Create"
          /\ trace[i].name = Expected[probe.shareTypes[2]].ObjectMeta.Name
          /\ trace[i].err = NoErr
    /\ probe.status = {DisabledWith(NoShareTypes)}
    /\ conditions = probe.status

(***************************************************************************)
(* Replacement.  The lister is not changed by a sync, so after a sync it  *)
(* still shows what the sync has observed.                                 *)
(***************************************************************************)
\* the sync that has just run observed the class of share type t with
\* parameters other than the desired ones
Replaced(t) ==
    /\ lister[Expected[t].ObjectMeta.Name] # {}
    /\ The(lister[Expected[t].ObjectMeta.Name]).Parameters # Expected[t].Parameters

\* the create, update and delete calls of the trace on class n, in order
WritesOn(n) ==
    LET Test(c) == IsClassWrite(c) /\ c.name = n
    IN SelectSeq(trace, Test)

\* the desired class of t with the metadata of the observed class that the
\* desired class does not set
Carried(t) ==
    [Expected[t] EXCEPT !.ObjectMeta.Annotations =
        The(lister[Expected[t].ObjectMeta.Name]).ObjectMeta.Annotations]

IsCreateOrDelete(c) == c.op \in {"Create", "Delete"}

(***************************************************************************)
(* C8.  After a reconcile that returned no error, a second reconcile with *)
(* the same share type list and no outside change to the store in between *)
(* issues no create and no delete, and leaves the parameters of every     *)
(* class unchanged.                                                        *)
(***************************************************************************)
C8_Idempotent ==
    [][(/\ SawShareTypes
        /\ ret.Kind # "Aggregate"
        /\ SyncStep
        /\ probe'.opState = "Managed"
        /\ probe'.outcome = "ok"
        /\ probe'.shareTypes = probe.shareTypes)
       => /\ Len(Calls(trace', IsCreateOrDelete)) = 0
          /\ \A n \in ClassNames :
                /\ store'[n] = {} <=> store[n] = {}
                /\ store[n] # {} => The(store'[n]).Parameters = The(store[n]).Parameters]_vars

(***************************************************************************)
(* C9.  In a replacement, a delete that answers not-found does not abort  *)
(* the share type: the class is then created with the merged metadata and *)
(* no error is reported for the delete.  Any other error of the delete    *)
(* aborts the share type with that error, and no create is issued.        *)
(***************************************************************************)
C9_NotFoundProceeds ==
    SawShareTypes =>
        \A t \in ShareTypes :
            (Expected[t].ObjectMeta.Name \in NamesOf(probe.shareTypes) /\ Replaced(t)) =>
                LET w == WritesOn(Expected[t].ObjectMeta.Name)
                IN /\ w[1].op = "Delete"
                   /\ w[1].err.Reason = "NotFound" =>
                         /\ Len(w) = 2
                         /\ w[2].op = "Create"
                         /\ w[2].obj = {Carried(t)}
                         /\ \A k \in 1..Len(ret.Errs) : ret.Errs[k] # w[1].err
                   /\ w[1].err.Reason = "InternalError" =>
                         /\ Len(w) = 1
                         /\ \E k \in 1..Len(ret.Errs) : ret.Errs[k] = w[1].err

(***************************************************************************)
(* C10.  When the lister shows a class as absent and its create is        *)
(* answered with already-exists, because another actor created it first,  *)
(* the sync does not surface that error: it is not among the errors the   *)
(* sync returns, and when nothing else has failed the sync goes on to the *)
(* Enabled transition.                                                     *)
(***************************************************************************)
C10_AlreadyExistsSwallowed ==
    SawShareTypes =>
        \A i \in 1..Len(trace) :
            (/\ trace[i].op = "Create"
             /\ trace[i].err.Reason = "AlreadyExists"
             /\ lister[trace[i].name] = {})
            => /\ \A k \in 1..Len(ret.Errs) : ret.Errs[k] # trace[i].err
               /\ Len(Calls(trace, IsFailure)) = 1 => Len(Calls(trace, IsStatusUpdate)) = 1

\* the sync of this step left the controller, the conditions and the classes
\* as it found them
NothingChanged ==
    /\ conditions' = conditions
    /\ controllersRunning' = controllersRunning
    /\ runCount' = runCount
    /\ store' = store

(***************************************************************************)
(* C11.  A sync whose probe fails with an error other than the            *)
(* endpoint-not-found error returns that error and has no side effect: it *)
(* sets and removes no condition, starts no controller, and creates,      *)
(* updates and deletes no storage class.                                   *)
(***************************************************************************)
C11_ProbeErrorPropagates ==
    [][(SyncStep /\ probe'.opState = "Managed" /\ probe'.outcome = "error") =>
          /\ ret' = Err("GetShareTypes")
          /\ NothingChanged
          /\ Len(Calls(trace', IsStatusUpdate)) = 0
          /\ Len(Calls(trace', IsRun)) = 0
          /\ Len(Calls(trace', IsClassCall)) = 0]_vars

\* the probe has failed in a sync that found the Available condition, the
\* controllers running and a class in the store
C11_Witness ==
    /\ AfterSync
    /\ probe.opState = "Managed"
    /\ probe.outcome = "error"
    /\ ret = Err("GetShareTypes")
    /\ conditions = {Available}
    /\ controllersRunning
    /\ \E n \in ClassNames : store[n] # {}

(***************************************************************************)
(* C12.  When the management state is Unmanaged or Removed, sync returns  *)
(* no error and changes nothing, whatever the state before: Manila is not *)
(* probed, and the conditions, the storage classes and controllersRunning *)
(* are as they were.                                                       *)
(***************************************************************************)
C12_UnmanagedQuiescent ==
    [][(SyncStep /\ probe'.opState \in {"Unmanaged", "Removed"}) =>
          /\ ret' = Nil
          /\ NothingChanged
          /\ \A i \in 1..Len(trace') : trace'[i].op = "GetOperatorState"]_vars

\* a sync in Removed state has run while the status held Disabled, the
\* controllers were running and a class of the old namespace was in the store
C12_Witness ==
    /\ AfterSync
    /\ probe.opState = "Removed"
    /\ HasTrue(conditions, DisabledType)
    /\ controllersRunning
    /\ \E t \in ShareTypes : store[Expected[t].ObjectMeta.Name] = {Olm[t]}

\* the conditions without their message text
NoMessage(conds) == {[c EXCEPT !.Message = ""] : c \in conds}

\* the sync that has just run was in Managed state and its probe returned
\* an empty list
SawNoShareTypes ==
    /\ AfterSync
    /\ probe.opState = "Managed"
    /\ probe.outcome = "ok"
    /\ Len(probe.shareTypes) = 0

\* what sync does from the current state when Manila is not there and the
\* status update fails as told
NotSupportedSync(statusFail) ==
    sync(Current, [opState |-> "Managed", outcome |-> "ErrEndpointNotFound",
                   shareTypes |-> <<>>, faults |-> <<>>, statusFail |-> statusFail])

(***************************************************************************)
(* C13.  (as stated) From every prior state, a sync whose probe returns   *)
(* an empty list ends as a sync whose probe reports that the service is   *)
(* not supported: Disabled true with reason NoManila, Available absent,   *)
(* no error returned, no controller started and no storage class call.    *)
(***************************************************************************)
C13_Original ==
    SawNoShareTypes =>
        /\ \E c \in conditions :
              c.Type = DisabledType /\ c.Status = "True" /\ c.Reason = "NoManila"
        /\ ~Has(conditions, AvailableType)
        /\ ret = Nil
        /\ Len(Calls(trace, IsRun)) = 0
        /\ Len(Calls(trace, IsClassCall)) = 0

(***************************************************************************)
(* C13.  (amended) From every prior state, a sync whose probe returns an  *)
(* empty list ends as a sync from the same state whose probe reports that *)
(* the service is not supported and whose status update has the same      *)
(* outcome: the same conditions but for the message text, the same return *)
(* value, no controller started, no storage class call and no class       *)
(* changed.  When the status update succeeds that is Disabled true with   *)
(* reason NoManila, Available absent and no error; when it fails the      *)
(* conditions stay as they were and the error of the update is returned.  *)
(***************************************************************************)
C13_EmptyLikeNotSupported ==
    [][(SyncStep /\ probe'.opState = "Managed" /\ probe'.outcome = "ok"
                 /\ Len(probe'.shareTypes) = 0) =>
          /\ \E other \in {NotSupportedSync(~StatusUpdated(trace'))} :
                /\ NoMessage(conditions') = NoMessage(other.conditions)
                /\ ret' = other.ret
                /\ controllersRunning' = other.controllersRunning
                /\ runCount' = other.runCount
                /\ store' = other.store
                /\ Calls(trace', IsRun) = Calls(other.trace, IsRun)
                /\ Calls(trace', IsClassCall) = Calls(other.trace, IsClassCall)
                /\ Calls(trace', IsStatusUpdate) = Calls(other.trace, IsStatusUpdate)
          /\ controllersRunning' = controllersRunning
          /\ runCount' = runCount
          /\ store' = store
          /\ Len(Calls(trace', IsRun)) = 0
          /\ Len(Calls(trace', IsClassCall)) = 0
          /\ IF StatusUpdated(trace')
             THEN conditions' = {DisabledWith(NoShareTypes)} /\ ret' = Nil
             ELSE conditions' = conditions /\ ret' = Err("UpdateStatus")]_vars

\* a sync has seen an empty list while the controllers were running, with a
\* class in the store, and has replaced Available by Disabled
C13_Witness ==
    /\ SawNoShareTypes
    /\ HasTrue(probe.status, AvailableType)
    /\ conditions = {DisabledWith(NoShareTypes)}
    /\ ret = Nil
    /\ \E n \in ClassNames : store[n] # {}

\* the place of a call in the order of the effects of a sync
Rank(c) ==
    CASE c.op = "GetOperatorState" -> 0
      [] c.op = "GetShareTypes" -> 1
      [] c.op = "Run" -> 2
      [] IsClassCall(c) -> 3
      [] c.op = "UpdateStatus" -> 4

(***************************************************************************)
(* C15.  Within every sync the effects come in the order probe, launch of *)
(* the controllers, storage class calls, condition update.  The launch    *)
(* happens exactly when the probe of this sync returned a list that is    *)
(* not empty and controllersRunning was not set; no storage class call    *)
(* comes before it; the condition update is the last effect; and the      *)
(* controllers stay started when the reconciliation then fails.           *)
(***************************************************************************)
C15_FixedOrder ==
    [][SyncStep =>
          /\ \A i, j \in 1..Len(trace') : i < j => Rank(trace'[i]) <= Rank(trace'[j])
          /\ Len(Calls(trace', IsStatusUpdate)) <= 1
          /\ Len(Calls(trace', IsRun)) =
                IF /\ probe'.opState = "Managed"
                   /\ probe'.outcome = "ok"
                   /\ Len(probe'.shareTypes) > 0
                   /\ ~controllersRunning
                THEN NumControllers ELSE 0
          /\ Len(Calls(trace', IsRun)) > 0 =>
                /\ trace'[2] = Plain("GetShareTypes", FALSE)
                /\ controllersRunning'
                /\ \A c \in csiControllers : runCount'[c] = runCount[c] + 1
          /\ Len(Calls(trace', IsClassCall)) > 0 => controllersRunning']_vars

\* a sync has started the controllers, has then failed to reconcile a
\* class, and the controllers are running
C15_Witness ==
    /\ SawShareTypes
    /\ Len(Calls(trace, IsRun)) = NumControllers
    /\ ret.Kind = "Aggregate"
    /\ Len(Calls(trace, IsStatusUpdate)) = 0
    /\ controllersRunning
    /\ \A c \in csiControllers : runCount[c] = 1

\* the six parameters that refer to the secret
SecretNameKeys ==
    {"csi.storage.k8s.io/provisioner-secret-name",
     "csi.storage.k8s.io/node-stage-secret-name",
     "csi.storage.k8s.io/node-publish-secret-name"}
SecretNamespaceKeys ==
    {"csi.storage.k8s.io/provisioner-secret-namespace",
     "csi.storage.k8s.io/node-stage-secret-namespace",
     "csi.storage.k8s.io/node-publish-secret-namespace"}

\* the class has the name, the provisioner and the parameters the share
\* type asks for
ClassOf(sc, shareType) ==
    /\ sc.ObjectMeta.Name = StorageClassNamePrefix \o shareType.Name
    /\ sc.Provisioner = "manila.csi.openstack.org"
    /\ DOMAIN sc.Parameters = {"type"} \cup SecretNameKeys \cup SecretNamespaceKeys
    /\ sc.Parameters["type"] = shareType.Name
    /\ \A k \in SecretNameKeys : sc.Parameters[k] = ManilaSecretName
    /\ \A k \in SecretNamespaceKeys : sc.Parameters[k] = OperatorNamespace

(***************************************************************************)
(* C16.  generateStorageClass depends on the share type alone: the name   *)
(* of the class is the prefix followed by the name of the share type, so  *)
(* share types of different names get classes of different names; the     *)
(* provisioner is manila.csi.openstack.org; the parameters are "type",    *)
(* the name of the share type, and the six secret references.  Whatever   *)
(* the state a sync starts from, the class it submits for a share type is *)
(* that class.                                                             *)
(***************************************************************************)
C16_GeneratedClass ==
    /\ \A t \in ShareTypes : ClassOf(generateStorageClass(t), t)
    /\ \A t1, t2 \in ShareTypes :
          t1.Name # t2.Name =>
              generateStorageClass(t1).ObjectMeta.Name # generateStorageClass(t2).ObjectMeta.Name
    /\ \A i \in 1..Len(trace) :
          trace[i].op \in {"Create", "Update"} =>
              \E t \in ShareTypes :
                  /\ t \in {probe.shareTypes[k] : k \in 1..Len(probe.shareTypes)}
                  /\ ClassOf(The(trace[i].obj), t)

\* one sync has created the classes of two share types, one of them with an
\* annotation carried over from the class it replaces
C16_Witness ==
    /\ SawShareTypes
    /\ \A t \in ShareTypes :
          \E i \in 1..Len(trace) :
              /\ trace[i].op = "Create"
              /\ trace[i].err = NoErr
              /\ trace[i].name = Expected[t].ObjectMeta.Name
    /\ \E i \in 1..Len(trace) :
          /\ trace[i].op = "Create"
          /\ The(trace[i].obj).ObjectMeta.Annotations # {}

\* the store holds the class of share type t with the desired parameters
Reconciled(st, t) ==
    /\ st[Expected[t].ObjectMeta.Name] # {}
    /\ The(st[Expected[t].ObjectMeta.Name]).Parameters = Expected[t].Parameters

(***************************************************************************)
(* C17.  Whenever a sync commits the Enabled transition, the store then   *)
(* holds, for every share type of the list its probe returned, the class  *)
(* named prefix+name with the desired parameters, whatever the lister     *)
(* showed and whatever the delete call answered, not-found included.      *)
(***************************************************************************)
C17_EnabledImpliesClasses ==
    (SawShareTypes /\ StatusUpdated(trace)) =>
        \A i \in 1..Len(probe.shareTypes) : Reconciled(store, probe.shareTypes[i])

(***************************************************************************)
(* C18.  No sync deletes a storage class whose parameters in the store    *)
(* already are the desired ones of its share type, even when the lister   *)
(* still shows the old parameters.                                         *)
(***************************************************************************)
C18_NoDeleteOfDesired ==
    [][SyncStep =>
          \A i \in 1..Len(trace') :
              (trace'[i].op = "Delete" /\ trace'[i].err = NoErr) =>
                  \A t \in ShareTypes :
                      Expected[t].ObjectMeta.Name = trace'[i].name => ~Reconciled(store, t)]_vars

(***************************************************************************)
(* C19.  When a user has set an annotation on the class of a share type   *)
(* and the share type stays in the probed list, then after any sequence   *)
(* of syncs, a sync whose delete succeeded and whose create failed        *)
(* included, the class of that name carries the annotation whenever it    *)
(* is in the store.                                                        *)
(***************************************************************************)
C19_AnnotationKept ==
    \A n \in userAnnotated \cap ClassNames :
        store[n] # {} => DefaultClassAnnotation \in The(store[n]).ObjectMeta.Annotations

\* the sync of this step was in Managed state, its probe returned a list
\* that is not empty, and its reconciliations and its status update succeeded
Succeeds ==
    /\ SyncStep
    /\ probe'.opState = "Managed"
    /\ probe'.outcome = "ok"
    /\ Len(probe'.shareTypes) > 0
    /\ ret' = Nil
    /\ StatusUpdated(trace')

(***************************************************************************)
(* C14.  A sync that failed while reconciling the storage classes leaves  *)
(* nothing behind that blocks later syncs: a sync after it, in Managed    *)
(* state, whose probe returns a list that is not empty and whose          *)
(* reconciliations and status update succeed, commits the Enabled         *)
(* transition.  So when sync is invoked again and again and from some     *)
(* point on every sync succeeds, Available true is eventually reached.    *)
(***************************************************************************)
C14_Recovery ==
    /\ [][(AfterSync /\ ret.Kind = "Aggregate" /\ Succeeds) =>
             conditions' = {Available}]_vars
    /\ (<>[][SyncStep => Succeeds]_vars) => <>(conditions = {Available})

\* a sync has committed Enabled although an earlier sync, the one that
\* started the controllers, had failed and had left the conditions empty
C14_Witness ==
    /\ SawShareTypes
    /\ probe.status = {}
    /\ Len(Calls(trace, IsRun)) = 0
    /\ Len(Calls(trace, IsClassWrite)) > 0
    /\ ret = Nil
    /\ conditions = {Available}

\* every share type has its class with the desired parameters and the
\* operator is reported available
Converged ==
    /\ \A t \in ShareTypes : Reconciled(store, t)
    /\ conditions = {Available}

(***************************************************************************)
(* C20.  With a lister that lags behind the store: when from some point   *)
(* on the list of share types stays the same, nobody but sync writes      *)
(* storage classes and no call fails, then repeated syncs reach a state   *)
(* in which every share type has its class with the desired parameters    *)
(* and Available is true, and from which on no sync issues a delete or a  *)
(* create of a storage class.                                              *)
(***************************************************************************)
C20_Converges ==
    (<>[][Resync \/ InformerDeliver]_vars) =>
        /\ <>[]Converged
        /\ <>[][SyncStep => Len(Calls(trace', IsCreateOrDelete)) = 0]_vars

\* a sync has found every class as desired, one of them a class that a user
\* had annotated, in a lister that has caught up, and has written nothing
\* but updates
C20_Witness ==
    /\ SawShareTypes
    /\ Converged
    /\ lister = store
    /\ ret = Nil
    /\ Len(Calls(trace, IsCreateOrDelete)) = 0
    /\ \E n \in userAnnotated \cap ClassNames :
          DefaultClassAnnotation \in The(store[n]).ObjectMeta.Annotations

====
